---- MODULE Spec2Model ----
(***************************************************************************)
(* Ticket scraper (src/Main.py): a single poll loop that classifies an     *)
(* event page, compares the status with the last known one, notifies a     *)
(* Telegram chat subject to a persisted throttle timestamp, persists the   *)
(* status and backs off on errors.                                         *)
(*                                                                         *)
(* Time is the wall clock in seconds.  It advances only at the two sleep   *)
(* points of the loop; the network latency of a fetch or a send is not     *)
(* modelled.  The process starts at StartTime and is followed until        *)
(* MaxTime; at most MaxFaults failures (a failed send, a failed file       *)
(* write, an exception in the loop body) are injected in one run.          *)
(***************************************************************************)
EXTENDS Integers, Sequences, FiniteSets, TLC

VARIABLES
    pc,                  \* position of main() in its loop
    now,                 \* datetime.now(), seconds
    current_status,      \* main: current_status
    last_status,         \* main: last_status
    consecutive_errors,  \* main: consecutive_errors
    sleep_time,          \* main: sleep_time
    status_file,         \* contents of last_status.txt
    notif_file,          \* contents of last_notification.txt
    calls,               \* history: send_telegram_notification calls of this iteration,
                         \*          forgotten at the sleep that ends it
    changed,             \* history: this iteration took the "status changed" branch
    written,             \* history: outcome of this iteration's write_current_status
    replaced,            \* history: the last_status this iteration replaced (None: none)
    store_failed,        \* history: a write_current_status of this run has failed
    suppressed,          \* history: the last completed iteration was a change whose
                         \*          notification the cooldown suppressed
    slept,               \* history: duration of the last sleep performed (0: none yet)
    raised,              \* history: the counter holds an increment of the except handler
    last_sent,           \* history: time of the last delivered notification
    faults,              \* history: failures injected so far (sends, writes, exceptions)
    exit_reason,         \* history: why the loop ended
    fetched,             \* classifier under test: the outcome of its fetch
    page                 \* classifier under test: the page text fetched

vars == <<pc, now, current_status, last_status, consecutive_errors, sleep_time,
          status_file, notif_file, calls, changed, written, replaced, slept, raised,
          last_sent, faults, exit_reason, fetched, page, store_failed, suppressed>>

----------------------------------------------------------------------------
(* Bounds of the model *)

StartTime == 1800
MaxTime == 3660
MaxFaults == 1

----------------------------------------------------------------------------
(* Program constants *)

max_consecutive_errors == 5
Cooldown == 1800
BackoffBase == 60
BackoffCap == 3600
NormalSleep == 300
ExceptSleepTime == 60

Available == "Tickets Potentially Available"
NotAvailable == "Tickets Not Available"
Error == "Error"
Status == {Available, NotAvailable, Error}

\* Python's None, as a status and as a datetime
None == "None"
NoTime == 0 - 1

----------------------------------------------------------------------------
(* Classifier: check_ticket_availability *)

UpperSeq == <<"A","B","C","D","E","F","G","H","I","J","K","L","M",
              "N","O","P","Q","R","S","T","U","V","W","X","Y","Z">>
LowerSeq == <<"a","b","c","d","e","f","g","h","i","j","k","l","m",
              "n","o","p","q","r","s","t","u","v","w","x","y","z">>

\* str.lower(), character by character
LowerChar(c) ==
    IF \E i \in 1..Len(UpperSeq) : UpperSeq[i] = c
    THEN LowerSeq[CHOOSE i \in 1..Len(UpperSeq) : UpperSeq[i] = c]
    ELSE c

lower(s) == [i \in 1..Len(s) |-> LowerChar(s[i])]

\* Python's `sub in text` on strings
Contains(text, sub) ==
    \E i \in 0..(Len(text) - Len(sub)) :
        \A j \in 1..Len(sub) : text[i + j] = sub[j]

ticket_keywords ==
    << <<"N","E","W"," ","Y","E","A","R">>,
       <<"B","U","Y"," ","T","I","C","K","E","T">>,
       <<"E","V","E","N","T"," ","T","I","C","K","E","T">> >>

\* Variant: the page text not lower-cased
availability_indicators_CaseSensitive(text) ==
    \E k \in 1..Len(ticket_keywords) :
        Contains(text, lower(ticket_keywords[k]))

availability_indicators(text) ==
    \E k \in 1..Len(ticket_keywords) :
        Contains(lower(text), lower(ticket_keywords[k]))

\* Outcomes of requests.get / raise_for_status / BeautifulSoup
FetchOutcomes == {"ok", "timeout", "connection_error", "http_500", "parse_error"}

\* Sample page texts (soup.text)
Pages ==
    { << >>,
      <<"s","o","l","d"," ","o","u","t">>,
      <<"b","u","y"," ","t","i","c","k","e","t">>,
      <<"H","a","p","p","y"," ","N","e","w"," ","Y","e","a","r","!">>,
      <<"E","V","E","N","T"," ","T","I","C","K","E","T","S">>,
      <<"b","u","y"," ","t","i","c","k","e","d">>,
      <<"n","e","w","y","e","a","r">> }

\* Variant: only requests.exceptions.RequestException caught
check_ticket_availability_NetOnly(fetch, text) ==
    IF fetch = "ok"
    THEN IF availability_indicators(text) THEN Available ELSE NotAvailable
    ELSE IF fetch = "parse_error" THEN "raised" ELSE Error

check_ticket_availability(fetch, text) ==
    IF fetch = "ok"
    THEN IF availability_indicators(text) THEN Available ELSE NotAvailable
    ELSE Error

----------------------------------------------------------------------------
(* The two stores.  A file is [exists, content]; a write that fails after   *)
(* open(..., "w") has truncated the file leaves it empty; a file that       *)
(* cannot be opened or decoded makes its read raise.                       *)

AbsentFile == [exists |-> FALSE, content |-> << >>]
EmptyFile == [exists |-> TRUE, content |-> << >>]
UnreadableFile == [exists |-> TRUE, content |-> <<"unreadable">>]
FileOf(c) == [exists |-> TRUE, content |-> c]

WriteOutcomes == {"ok", "open_failed", "write_failed"}

\* Variant: a status instead of None when nothing can be read
read_last_status_Default(file) ==
    IF file.exists /\ file # UnreadableFile /\ file.content # << >>
    THEN file.content[1]
    ELSE NotAvailable

read_last_status(file) ==
    IF file.exists
    THEN IF file = UnreadableFile THEN None
         ELSE IF file.content = << >> THEN "" ELSE file.content[1]
    ELSE None

\* Variant: the write left out
write_current_status_Skip(file, status, wr) == file

write_current_status(file, status, wr) ==
    CASE wr = "ok" -> FileOf(<<status>>)
      [] wr = "open_failed" -> file
      [] wr = "write_failed" -> EmptyFile

\* datetime.isoformat(): the time of day in its fields
isoformat(t) == <<t \div 3600, (t % 3600) \div 60, t % 60>>

\* datetime.fromisoformat(): ValueError (here NoTime) on anything else
fromisoformat(s) ==
    IF Len(s) = 3 /\ s[2] \in 0..59 /\ s[3] \in 0..59
    THEN s[1] * 3600 + s[2] * 60 + s[3]
    ELSE NoTime

read_last_notification_time(file) ==
    IF file.exists THEN fromisoformat(file.content) ELSE NoTime

write_last_notification_time(file, t, wr) ==
    CASE wr = "ok" -> FileOf(isoformat(t))
      [] wr = "open_failed" -> file
      [] wr = "write_failed" -> EmptyFile

----------------------------------------------------------------------------
(* Notifier: send_telegram_notification *)

\* Variant: the cooldown test with >= for >
Eligible_AtCooldown(force, last_notification, t) ==
    force \/ last_notification = NoTime \/ t - last_notification >= Cooldown

\* Variant: the cooldown test applied to forced calls too
Eligible_Throttled(force, last_notification, t) ==
    last_notification = NoTime \/ t - last_notification > Cooldown

Eligible(force, last_notification, t) ==
    force \/ last_notification = NoTime \/ t - last_notification > Cooldown

\* Variant: the timestamp written whether or not the send succeeded
NotifFileAfter_Always(file, t, attempted, send_ok, wr) ==
    IF attempted THEN write_last_notification_time(file, t, wr) ELSE file

\* The file after the call: written only after bot.send_message returned
NotifFileAfter(file, t, attempted, send_ok, wr) ==
    IF attempted /\ send_ok THEN write_last_notification_time(file, t, wr) ELSE file

\* The result of one call: what was attempted, what was delivered, the file
send_telegram_notification(file, t, force, send_ok, wr) ==
    LET last_notification == read_last_notification_time(file)
        attempted == Eligible(force, last_notification, t)
    IN  [force |-> force,
         attempted |-> attempted,
         sent |-> attempted /\ send_ok,
         file |-> NotifFileAfter(file, t, attempted, send_ok, wr)]

\* What the history keeps of a call: the result, the outcome of the timestamp
\* write, the file the call found and the time of the last delivery before it
CallRecord(r, before, since, wr) ==
    [force |-> r.force, attempted |-> r.attempted, sent |-> r.sent,
     wrote |-> IF r.sent THEN wr ELSE "none",
     before |-> before, since |-> since]

----------------------------------------------------------------------------
(* Poll loop: main *)

\* 60 * (2 ** n), for the counters the loop can hold
RECURSIVE Pow2(_)
Pow2(n) == IF n = 0 THEN 1 ELSE 2 * Pow2(n - 1)

Min(a, b) == IF a < b THEN a ELSE b

\* Variant: 2 * n for 2 ** n
BackoffSleep_Linear(n) == Min(BackoffBase * (2 * n), BackoffCap)

BackoffSleep(n) == Min(BackoffBase * Pow2(n), BackoffCap)

\* The status a previous run left
StatusFiles ==
    {AbsentFile, EmptyFile, UnreadableFile} \cup {FileOf(<<s>>) : s \in Status}
\* The timestamp a previous run left: none, an unreadable one, one a cooldown
\* old, one a poll old
NotifFiles ==
    {AbsentFile, EmptyFile, FileOf(isoformat(StartTime - Cooldown)),
     FileOf(isoformat(StartTime - NormalSleep))}

\* The failures one call of the notifier or one file write injects
SendFaults(r, send_ok, wr) ==
    IF ~r.attempted THEN 0
    ELSE IF ~send_ok THEN 1
    ELSE IF wr # "ok" THEN 1 ELSE 0

WriteFaults(wr) == IF wr # "ok" THEN 1 ELSE 0

Init ==
    /\ pc = "check"
    /\ now = StartTime
    /\ current_status = None
    /\ status_file \in StatusFiles
    /\ notif_file \in NotifFiles
    /\ last_status = read_last_status(status_file)
    /\ consecutive_errors = 0
    /\ sleep_time = 0
    /\ calls = << >>
    /\ changed = FALSE
    /\ written = "none"
    /\ replaced = None
    /\ store_failed = FALSE
    /\ suppressed = FALSE
    /\ slept = 0
    /\ raised = FALSE
    /\ last_sent = read_last_notification_time(notif_file)
    /\ faults = 0
    /\ exit_reason = "none"
    /\ fetched = "none"
    /\ page = << >>

\* line 146: the top of an iteration
Classify ==
    /\ pc = "check"
    /\ \E fetch \in FetchOutcomes, text \in Pages :
           current_status' = check_ticket_availability(fetch, text)
    /\ pc' = "compare"
    /\ UNCHANGED <<now, last_status, consecutive_errors, sleep_time, status_file,
                   notif_file, calls, changed, written, replaced, slept, raised,
                   last_sent, faults, exit_reason, fetched, page, store_failed,
                   suppressed>>

\* Variant: the status written before the notifier is called
StatusFileAtNotify_Early(file, status) == FileOf(<<status>>)

\* line 152 leaves the status file alone: its write is line 153, after the call
StatusFileAtNotify(file, status) == file

\* lines 150-152
NotifyChange ==
    /\ pc = "compare"
    /\ current_status # last_status
    /\ \E send_ok \in BOOLEAN, wr \in WriteOutcomes :
           LET r == send_telegram_notification(notif_file, now, FALSE, send_ok, wr)
           IN  /\ faults + SendFaults(r, send_ok, wr) <= MaxFaults
               /\ faults' = faults + SendFaults(r, send_ok, wr)
               /\ notif_file' = r.file
               /\ last_sent' = IF r.sent THEN now ELSE last_sent
               /\ calls' = Append(calls, CallRecord(r, notif_file, last_sent, wr))
    /\ changed' = TRUE
    /\ status_file' = StatusFileAtNotify(status_file, current_status)
    /\ pc' = "write"
    /\ UNCHANGED <<now, current_status, last_status, consecutive_errors, sleep_time,
                   written, replaced, slept, raised, exit_reason,
                   fetched, page, store_failed, suppressed>>

\* Variant: last_status not updated
StatusAfterChange_Stale(current, last) == last

\* line 154: last_status = current_status
StatusAfterChange(current, last) == current

\* lines 153-154
WriteStatus ==
    /\ pc = "write"
    /\ \E wr \in WriteOutcomes :
           /\ faults + WriteFaults(wr) <= MaxFaults
           /\ faults' = faults + WriteFaults(wr)
           /\ status_file' = write_current_status(status_file, current_status, wr)
           /\ written' = wr
           /\ store_failed' = (store_failed \/ wr # "ok")
    /\ last_status' = StatusAfterChange(current_status, last_status)
    /\ replaced' = last_status
    /\ pc' = "backoff"
    /\ UNCHANGED <<now, current_status, consecutive_errors, sleep_time, notif_file,
                   calls, changed, slept, raised, last_sent, exit_reason,
                   fetched, page, suppressed>>

\* lines 155-158
NotifyForced ==
    /\ pc = "compare"
    /\ current_status = last_status
    /\ \E send_ok \in BOOLEAN, wr \in WriteOutcomes :
           LET r == send_telegram_notification(notif_file, now, TRUE, send_ok, wr)
           IN  /\ faults + SendFaults(r, send_ok, wr) <= MaxFaults
               /\ faults' = faults + SendFaults(r, send_ok, wr)
               /\ notif_file' = r.file
               /\ last_sent' = IF r.sent THEN now ELSE last_sent
               /\ calls' = Append(calls, CallRecord(r, notif_file, last_sent, wr))
    /\ pc' = "backoff"
    /\ UNCHANGED <<now, current_status, last_status, consecutive_errors, sleep_time,
                   status_file, changed, written, replaced, slept, raised, exit_reason,
                   fetched, page, store_failed, suppressed>>

\* Variant: the counter not reset on a status that is not Error
ErrorsAfter_NoReset(status, n) == IF status = Error THEN n + 1 ELSE n

\* lines 161-167
ErrorsAfter(status, n) == IF status = Error THEN n + 1 ELSE 0

SleepTimeAfter(status, n) == IF status = Error THEN BackoffSleep(n) ELSE NormalSleep

Backoff ==
    /\ pc = "backoff"
    /\ consecutive_errors' = ErrorsAfter(current_status, consecutive_errors)
    /\ sleep_time' = SleepTimeAfter(current_status, consecutive_errors')
    /\ raised' = (raised /\ current_status = Error)
    /\ pc' = "exitcheck"
    /\ UNCHANGED <<now, current_status, last_status, status_file, notif_file, calls,
                   changed, written, replaced, slept, last_sent, faults, exit_reason,
                   fetched, page, store_failed, suppressed>>

\* Variant: the exit taken one error late
TooManyErrors_Late(n) == n > max_consecutive_errors

\* Variant: the exit taken one error early
TooManyErrors_Early(n) == n >= max_consecutive_errors - 1

\* lines 170-172
TooManyErrors(n) == n >= max_consecutive_errors

ExitCheck ==
    /\ pc = "exitcheck"
    /\ IF TooManyErrors(consecutive_errors)
       THEN pc' = "done" /\ exit_reason' = "max_errors"
       ELSE pc' = "sleep" /\ UNCHANGED exit_reason
    /\ UNCHANGED <<now, current_status, last_status, consecutive_errors, sleep_time,
                   status_file, notif_file, calls, changed, written, replaced,
                   slept, raised, last_sent, faults, fetched, page, store_failed,
                   suppressed>>

\* line 174
Sleep ==
    /\ pc = "sleep"
    /\ now + sleep_time <= MaxTime
    /\ now' = now + sleep_time
    /\ slept' = sleep_time
    /\ pc' = "check"
    /\ calls' = << >>
    /\ changed' = FALSE
    /\ written' = "none"
    /\ replaced' = None
    /\ suppressed' = (changed /\ calls # << >> /\ ~calls[1].attempted)
    /\ UNCHANGED <<current_status, last_status, consecutive_errors, sleep_time,
                   status_file, notif_file, raised, last_sent, faults, exit_reason,
                   fetched, page, store_failed>>

\* The places of the try body an exception can be raised from
BodyPcs == {"check", "compare", "write", "backoff", "exitcheck", "sleep"}

\* Variant: the handler not counting the exception
HandlerErrors_Same(n) == n

\* lines 179-182: an exception other than KeyboardInterrupt in the loop body
HandlerErrors(n) == n + 1

Raise ==
    /\ pc \in BodyPcs
    /\ faults < MaxFaults
    /\ faults' = faults + 1
    /\ consecutive_errors' = HandlerErrors(consecutive_errors)
    /\ raised' = TRUE
    /\ pc' = "except"
    /\ UNCHANGED <<now, current_status, last_status, sleep_time, status_file,
                   notif_file, calls, changed, written, replaced, slept,
                   last_sent, exit_reason, fetched, page, store_failed, suppressed>>

\* line 183, then the next iteration of while True
HandlerNext == "check"

ExceptSleep ==
    /\ pc = "except"
    /\ now + ExceptSleepTime <= MaxTime
    /\ now' = now + ExceptSleepTime
    /\ slept' = ExceptSleepTime
    /\ pc' = HandlerNext
    /\ calls' = << >>
    /\ changed' = FALSE
    /\ written' = "none"
    /\ replaced' = None
    /\ UNCHANGED <<current_status, last_status, consecutive_errors, sleep_time,
                   status_file, notif_file, raised, last_sent, faults, exit_reason,
                   fetched, page, store_failed, suppressed>>

\* lines 176-178, 186-189: KeyboardInterrupt
Interrupt ==
    /\ pc # "done"
    /\ pc' = "done"
    /\ exit_reason' = "interrupt"
    /\ UNCHANGED <<now, current_status, last_status, consecutive_errors, sleep_time,
                   status_file, notif_file, calls, changed, written, replaced,
                   slept, raised, last_sent, faults, fetched, page, store_failed,
                   suppressed>>

Next ==
    \/ Classify
    \/ NotifyChange
    \/ WriteStatus
    \/ NotifyForced
    \/ Backoff
    \/ ExitCheck
    \/ Sleep
    \/ Raise
    \/ ExceptSleep
    \/ Interrupt

Spec == Init /\ [][Next]_vars

----------------------------------------------------------------------------
(* The classifier alone: one call of check_ticket_availability on a fetch     *)
(* outcome and a page text drawn from FetchOutcomes and PageTexts.            *)

\* A keyword with its letters alternately in upper and lower case
MixCase(s) == [i \in 1..Len(s) |-> IF i % 2 = 1 THEN s[i] ELSE LowerChar(s[i])]

\* A keyword without its last character, and without its blank
DropLast(s) == SubSeq(s, 1, Len(s) - 1)
DropBlank(s) == SelectSeq(s, LAMBDA c : c # " ")

Keywords == {ticket_keywords[k] : k \in 1..Len(ticket_keywords)}

\* Texts with and without a keyword at their core
Cores ==
    {<< >>, <<"s","o","l","d"," ","o","u","t">>}
        \cup Keywords
        \cup {lower(k) : k \in Keywords}
        \cup {MixCase(k) : k \in Keywords}
        \cup {DropLast(k) : k \in Keywords}
        \cup {DropBlank(lower(k)) : k \in Keywords}

Margins == {<< >>, <<"<","p",">">>, <<"T">>}

PageTexts == {pre \o core \o post : pre \in Margins, core \in Cores, post \in Margins}

InitClassifier ==
    /\ fetched \in FetchOutcomes
    /\ page \in PageTexts
    /\ pc = "check"
    /\ now = StartTime
    /\ current_status = None
    /\ status_file = AbsentFile
    /\ notif_file = AbsentFile
    /\ last_status = read_last_status(status_file)
    /\ consecutive_errors = 0
    /\ sleep_time = 0
    /\ calls = << >>
    /\ changed = FALSE
    /\ written = "none"
    /\ replaced = None
    /\ store_failed = FALSE
    /\ suppressed = FALSE
    /\ slept = 0
    /\ raised = FALSE
    /\ last_sent = NoTime
    /\ faults = 0
    /\ exit_reason = "none"

\* line 146, on the inputs under test
ClassifyInput ==
    /\ pc = "check"
    /\ current_status' = check_ticket_availability(fetched, page)
    /\ pc' = "compare"
    /\ UNCHANGED <<now, last_status, consecutive_errors, sleep_time, status_file,
                   notif_file, calls, changed, written, replaced, slept, raised,
                   last_sent, faults, exit_reason, fetched, page, store_failed,
                   suppressed>>

SpecClassifier == InitClassifier /\ [][ClassifyInput]_vars

----------------------------------------------------------------------------
(* Properties *)

\* The notifier call of the current iteration, when one was made
Called == calls # << >>
Call == calls[1]

\* Seconds between the last delivery before the call and the call
SinceLastSend(c) == now - c.since

\* C1: in an iteration whose status is unchanged, a forced call made less than
\* 30 minutes after the last delivered notification delivers nothing (so
\* heartbeats are at least the cooldown apart).  The code delivers on every
\* forced call, line 121.
C1_ForcedCallThrottled ==
    (Called /\ Call.force /\ Call.since # NoTime /\ SinceLastSend(Call) < Cooldown)
        => ~Call.sent

\* The sleep durations the backoff performs, by counter value
ErrorSleeps == <<120, 240, 480, 960, 1920>>

\* The counter holds n Error iterations and nothing else
ErrorRun(n) == ~raised /\ consecutive_errors = n

\* C2 (as stated): in a run of Error statuses without exceptions the loop sleeps
\* 120, 240, 480, 960 and 1920 seconds at counter values 1..5 and ends after
\* the 5th Error.
C2_Original ==
    /\ \A n \in 1..4 : (pc = "check" /\ ErrorRun(n)) => slept = ErrorSleeps[n]
    /\ (exit_reason = "max_errors" /\ ErrorRun(5)) => slept = ErrorSleeps[5]

\* C2 (amended): in a run of Error statuses without exceptions the loop sleeps
\* 120, 240, 480 and 960 seconds at counter values 1..4; at counter value 5 the
\* sleep time is computed as 1920 seconds, no sleep is performed with it and the
\* loop is at its exit.
C2_BackoffSequence ==
    /\ \A n \in 1..4 : (pc = "check" /\ ErrorRun(n)) => slept = ErrorSleeps[n]
    /\ ErrorRun(5) =>
           /\ pc \in {"exitcheck", "done"}
           /\ sleep_time = ErrorSleeps[5]
           /\ slept = ErrorSleeps[4]

C2_Witness ==
    /\ exit_reason = "max_errors"
    /\ ErrorRun(5)
    /\ slept = 960
    /\ sleep_time = 1920

\* C3: wherever the loop sleeps or polls again, the counter is below 5, whether
\* it was incremented by Error statuses or by the except handler.
C3_NoPollAtMaxErrors ==
    pc \in {"sleep", "except", "check"} => consecutive_errors < max_consecutive_errors

\* C4: an iteration whose status differs from the last known one makes exactly
\* one notifier call, not forced, before it writes the status; it then writes
\* the new status and sets last_status to it.
C4_ChangeIteration ==
    /\ pc = "write" =>
           /\ changed /\ written = "none"
           /\ Len(calls) = 1 /\ ~Call.force
           /\ last_status # current_status
    /\ (changed /\ pc \in {"backoff", "exitcheck", "sleep"}) =>
           /\ Len(calls) = 1 /\ ~Call.force
           /\ written # "none"
           /\ written = "ok" => status_file = FileOf(<<current_status>>)
           /\ last_status = current_status
    /\ (Called /\ Call.force) => ~changed /\ written = "none"

C4_Witness ==
    /\ pc = "backoff"
    /\ changed
    /\ replaced = NotAvailable
    /\ current_status = Available
    /\ last_status = Available
    /\ Len(calls) = 1 /\ ~Call.force
    /\ status_file = FileOf(<<Available>>)
    /\ faults = 0
    /\ consecutive_errors = 0
    /\ now > StartTime

\* C5: a notifier call attempts a delivery exactly when it is forced, or no
\* timestamp can be read, or more than 30 minutes passed since the timestamp;
\* a call that attempts nothing sends nothing and leaves the timestamp file
\* as it found it.
C5_Eligibility ==
    Called =>
        LET last_notification == read_last_notification_time(Call.before)
        IN  /\ Call.attempted <=>
                   \/ Call.force
                   \/ last_notification = NoTime
                   \/ now - last_notification > Cooldown
            /\ ~Call.attempted =>
                   /\ ~Call.sent
                   /\ notif_file = Call.before
                   /\ last_sent = Call.since

C5_Witness ==
    /\ Called
    /\ ~Call.force
    /\ ~Call.attempted
    /\ now - read_last_notification_time(Call.before) = Cooldown
    /\ notif_file = Call.before

\* C6: a forced call made 30 minutes or more after the last delivered
\* notification attempts a delivery; after a delivered notification whose
\* timestamp write succeeded, the timestamp file holds the time of the delivery
\* and reads back as it.
C6_HeartbeatDelivers ==
    Called =>
        /\ (Call.force /\ Call.since # NoTime /\ SinceLastSend(Call) >= Cooldown)
               => Call.attempted
        /\ (Call.sent /\ Call.wrote = "ok") =>
               /\ last_sent = now
               /\ notif_file.exists
               /\ read_last_notification_time(notif_file) = last_sent

C6_Witness ==
    /\ Called
    /\ Call.force
    /\ Call.since # NoTime
    /\ SinceLastSend(Call) = Cooldown
    /\ Call.sent
    /\ Call.wrote = "ok"
    /\ notif_file # Call.before

\* A step that makes a notifier call whose delivery fails
FailedSend ==
    /\ Len(calls') = Len(calls) + 1
    /\ calls'[Len(calls')].attempted
    /\ ~calls'[Len(calls')].sent

\* C7: a notifier call whose delivery fails leaves the timestamp file and the
\* consecutive-error counter as they were, and the loop goes on to its next
\* statement, not to the except handler.
C7_FailedSendAbsorbed ==
    [][FailedSend =>
           /\ notif_file' = notif_file
           /\ consecutive_errors' = consecutive_errors
           /\ pc' \in {"write", "backoff"}]_vars

C7_Witness ==
    /\ Called
    /\ Call.attempted
    /\ ~Call.sent
    /\ Call.before = FileOf(isoformat(StartTime - Cooldown))
    /\ notif_file = Call.before
    /\ pc \in {"write", "backoff"}

\* C8: the step that ends the body of an iteration sets the counter to zero when
\* the status is not Error and adds exactly one to it when the status is Error,
\* in a change iteration and in an unchanged one alike.
C8_CounterUpdate ==
    [][(pc = "backoff" /\ pc' = "exitcheck") =>
           consecutive_errors' =
               IF current_status = Error THEN consecutive_errors + 1 ELSE 0]_vars

C8_Witness ==
    /\ pc = "exitcheck"
    /\ ~changed
    /\ Called
    /\ current_status = Error
    /\ ErrorRun(3)

\* C9: an exception in the loop body takes the loop to its handler with the
\* counter one higher; from the handler the loop sleeps 60 seconds and starts
\* the next iteration (or is interrupted).
C9_ExceptionHandled ==
    [][/\ (pc # "except" /\ pc' = "except") =>
              consecutive_errors' = consecutive_errors + 1
       /\ (pc = "except" /\ pc' # "except") =>
              \/ /\ pc' = "check"
                 /\ now' = now + 60
                 /\ consecutive_errors' = consecutive_errors
              \/ pc' = "done" /\ exit_reason' = "interrupt"]_vars

C9_Witness ==
    /\ pc = "check"
    /\ raised
    /\ slept = 60
    /\ consecutive_errors = 1
    /\ now = StartTime + 60

\* C10: the loop is ended only by the exit check finding the counter at 5 or
\* more, which happens only in an iteration whose status is Error, or by an
\* interrupt.
C10_ExitsOnly ==
    pc = "done" =>
        \/ exit_reason = "interrupt"
        \/ /\ exit_reason = "max_errors"
           /\ consecutive_errors >= 5
           /\ current_status = Error

C10_Witness ==
    /\ pc = "done"
    /\ exit_reason = "max_errors"
    /\ raised
    /\ current_status = Error

\* C11: whatever the fetch or the parse does, the classifier returns to the
\* loop with one of the three statuses, and with Error whenever the fetch or the
\* parse failed.
C11_ClassifierTotal ==
    pc = "compare" =>
        /\ current_status \in Status
        /\ fetched \in {"timeout", "connection_error", "http_500", "parse_error"}
               => current_status = Error

C11_Witness ==
    /\ pc = "compare"
    /\ fetched = "http_500"
    /\ page = ticket_keywords[2]
    /\ current_status = Error

\* A status file that holds no status: missing, unreadable or corrupted
BadStatusFile(f) == f \in {AbsentFile, UnreadableFile, EmptyFile}

\* C12: a process started on a missing, unreadable or corrupted status file
\* starts as on its first run: with a last status that is no status and a
\* counter of 0, and its first classification takes the change branch (one call,
\* not forced, then the write of the new status).
C12_SentinelStart ==
    /\ (slept = 0 /\ pc \in {"check", "compare", "write"}
            /\ BadStatusFile(status_file)) =>
           /\ last_status \notin Status
           /\ consecutive_errors = 0
           /\ pc = "compare" => current_status # last_status
           /\ pc = "write" => Len(calls) = 1 /\ ~Call.force
    /\ (slept = 0 /\ pc \in {"backoff", "exitcheck", "sleep"}
            /\ changed /\ replaced \notin Status) =>
           /\ Len(calls) = 1 /\ ~Call.force
           /\ last_status = current_status
           /\ written = "ok" => status_file = FileOf(<<current_status>>)
    /\ (slept = 0 /\ Called /\ Call.force) => ~BadStatusFile(status_file)

C12_Witness ==
    /\ slept = 0
    /\ pc = "backoff"
    /\ replaced = ""
    /\ changed
    /\ ~Call.force
    /\ written = "ok"
    /\ status_file = FileOf(<<NotAvailable>>)
    /\ consecutive_errors = 0

\* C13: a write_current_status that fails leaves the loop running with the new
\* status in last_status and the counter untouched; an iteration whose status
\* equals last_status makes the forced call and writes nothing, whatever the
\* status file holds.
C13_WriteFailureKept ==
    [][/\ (pc = "write" /\ pc' = "backoff" /\ written' # "ok") =>
              /\ last_status' = current_status
              /\ consecutive_errors' = consecutive_errors
              /\ exit_reason' = "none"
       /\ (pc = "compare" /\ current_status = last_status /\ Len(calls') = 1) =>
              /\ calls'[1].force
              /\ pc' = "backoff"
              /\ UNCHANGED <<status_file, last_status>>]_vars

C13_Witness ==
    /\ Called
    /\ Call.force
    /\ slept = 300
    /\ faults = 1
    /\ status_file = EmptyFile
    /\ last_status = Available
    /\ current_status = Available

\* C14: the status file is written in the iterations that take the change
\* branch and in no other; where the loop is about to sleep, in a run whose
\* status writes all succeeded, the file holds last_status, which is the
\* status just classified.
C14_StoreWrites ==
    /\ [](pc \in {"backoff", "exitcheck", "sleep"} => (written # "none" <=> changed))
    /\ [][status_file' # status_file =>
              pc = "write" /\ current_status # last_status]_vars
    /\ []((pc = "sleep" /\ ~store_failed) =>
              /\ status_file = FileOf(<<last_status>>)
              /\ read_last_status(status_file) = current_status)

C14_Witness ==
    /\ pc = "sleep"
    /\ ~store_failed
    /\ faults = 0
    /\ slept = 300
    /\ changed
    /\ written = "ok"
    /\ replaced = NotAvailable
    /\ status_file = FileOf(<<Available>>)

\* Two characters equal up to the case of a letter
CaseEq(a, b) ==
    \/ a = b
    \/ \E i \in 1..Len(UpperSeq) : {a, b} = {UpperSeq[i], LowerSeq[i]}

\* The text holds one of the keywords, in any mix of cases
HasKeyword(text) ==
    \E k \in Keywords :
        \E i \in 0..(Len(text) - Len(k)) :
            \A j \in 1..Len(k) : CaseEq(text[i + j], k[j])

\* C15: on a page that was fetched and parsed, the classifier returns
\* Available when the text holds a keyword in any case, and NotAvailable when it
\* holds none, the empty page included.
C15_KeywordAnyCase ==
    (pc = "compare" /\ fetched = "ok") =>
        /\ HasKeyword(page) => current_status = Available
        /\ ~HasKeyword(page) => current_status = NotAvailable
        /\ page = << >> => current_status = NotAvailable

C15_Witness ==
    /\ pc = "compare"
    /\ fetched = "ok"
    /\ page = <<"<","p",">">> \o MixCase(ticket_keywords[3]) \o <<"T">>
    /\ current_status = Available

SleepDurations == {60, 120, 240, 480, 960, 300}

\* C17: every sleep performed lasted 60, 120, 240, 480, 960 or 300 seconds;
\* the loop is about to sleep after an Error status only with a counter below
\* 5, for 60 * 2^counter seconds, so never for the 3600 seconds of the cap.
C17_SleepDurations ==
    /\ slept \in SleepDurations \cup {0}
    /\ slept # BackoffCap
    /\ pc = "sleep" =>
           /\ sleep_time \in SleepDurations \ {ExceptSleepTime}
           /\ sleep_time < BackoffCap
           /\ current_status = Error =>
                  /\ consecutive_errors \in 1..(max_consecutive_errors - 1)
                  /\ sleep_time = BackoffBase * Pow2(consecutive_errors)
           /\ current_status # Error => sleep_time = NormalSleep
    /\ pc = "check" => (slept = 0 <=> now = StartTime)

C17_Witness ==
    /\ pc = "check"
    /\ slept = 960
    /\ consecutive_errors = 4
    /\ current_status = Error
    /\ raised

\* The process was interrupted in a change iteration between the notifier call
\* (line 152) and the status write (line 153)
InterruptedBetween ==
    /\ pc = "done"
    /\ exit_reason = "interrupt"
    /\ changed
    /\ Called
    /\ written = "none"

\* What a restarted process starts from (line 141), and its test of line 150 on
\* the status the interrupted process had classified
RestartDetectsChange == current_status # read_last_status(status_file)

\* C18 (as stated): the status write of an iteration comes after its notifier
\* call, and a process interrupted between the two finds, when restarted, the
\* same change again.
C18_Original ==
    /\ written # "none" => (Called /\ ~Call.force)
    /\ InterruptedBetween => RestartDetectsChange

\* C18 (amended): the status file changes only in a step that follows the
\* non-forced notifier call of the same iteration, and only to the status that
\* call was about (or to an empty file when the write fails); a process
\* interrupted between the two steps finds the same change again when restarted
\* if the status file reads back as its last_status, which it does in every run
\* whose status writes have all succeeded.
C18_NotifyBeforeWrite ==
    /\ [][status_file' # status_file =>
              /\ pc = "write"
              /\ Len(calls) = 1 /\ ~Call.force
              /\ status_file' \in {FileOf(<<current_status>>), EmptyFile}
              /\ calls' = calls /\ current_status' = current_status]_vars
    /\ [](written # "none" => (Called /\ ~Call.force))
    /\ []((InterruptedBetween /\ read_last_status(status_file) = last_status)
              => RestartDetectsChange)
    /\ [](~store_failed => read_last_status(status_file) = last_status)

C18_Witness ==
    /\ InterruptedBetween
    /\ ~store_failed
    /\ Call.sent
    /\ slept = 300
    /\ status_file = FileOf(<<NotAvailable>>)
    /\ last_status = NotAvailable
    /\ current_status = Available
    /\ RestartDetectsChange

====
